---- MODULE Spec2Model ----
(***************************************************************************)
(* srddl: the field engine of src/srddl/core/fields.py, the primitive      *)
(* fields of src/srddl/fields/core.py, the buffer of src/srddl/data.py and *)
(* the offsets of src/srddl/core/offset.py.                                *)
(*                                                                         *)
(* A behaviour follows ONE field of a structure (drawn in Init from the    *)
(* configurations below) over the structure instances of Instances, all    *)
(* mapped on one Data buffer.  The per-instance state of the field is the  *)
(* dict instance._srddl.fields_data, whose keys embed id(field): with one  *)
(* field, a key is the state name alone ("status", "boundvalue").          *)
(*                                                                         *)
(* The source publishes two functions under the name initialize: the       *)
(* method AbstractField.initialize (fields.py 284-292), which is what a    *)
(* class declared as AbstractField is (line 269, no metaclass) runs, and   *)
(* the function _MetaAbstractField.__new__ puts in its place in a class it *)
(* creates (fields.py 36-55), which never calls the method it wraps and    *)
(* keeps it reachable as __wrapped__.  Both act on the same per-instance   *)
(* state and both are operations of the model.  __get__ and decode are     *)
(* modelled as the metaclass wraps them: the lifecycle status and the      *)
(* caches exist only there.                                                *)
(*                                                                         *)
(* Python is single threaded here: every operation is one atomic action.   *)
(*                                                                         *)
(* Besides the behaviours of one IntField, BitField or BitMaskField, the   *)
(* module follows the field `data` of a structure (length, data), with the *)
(* entries of `length` kept in the same dict under their own keys, and the *)
(* arithmetic of offsets on its own, as a chain of calls each made on the  *)
(* offset the call before it returned.  srddl/models.py and                *)
(* srddl/core/helpers.py are not in src/: the initialization pass of a     *)
(* structure and reference_value follow the specification.  The dict       *)
(* Data._mapped of the structures mapped at each offset is followed too,   *)
(* with the class of the structures as a parameter of map and map_array.   *)
(***************************************************************************)
EXTENDS Integers, Sequences, FiniteSets, TLC

\* ------------------------------------------------------------------ bounds
\* Length of the Data buffer in bytes.
BufLen == 2
\* BoundValue objects constructed in one behaviour.
MaxBV == 2
\* Cap of the buffer-read counter of one decode key.
MaxReads == 2
\* Length of the Data buffer under the wide BitFields: room for a 4-byte read.
WideBufLen == 4
\* Largest byte component, in absolute value, of an offset the arithmetic
\* of offsets is followed to.
MaxByte == 2
\* Structures mapped on one Data in one behaviour.
MaxMapped == 3

\* The structure instances mapped on the buffer.
Instances == {"s1"}

\* ------------------------------------------------------- FieldInitStatus
KO == 0
INIT == 1
OK == 2

\* --------------------------------------------------------------- offsets
\* _Offset.__init__: (byte, bit) normalised so that bit is in 0..7.
Offset(byte, bit) == [byte |-> byte + (bit \div 8), bit |-> bit % 8]

\* _Offset.__add__ of two offsets.
Offset_add(a, b) ==
    LET bit == a.bit + b.bit
        byte == a.byte + b.byte + (bit \div 8)
    IN  Offset(byte, bit % 8)

\* _Offset.aligned
aligned(o) == o.bit = 0

\* Offset.rounded: the byte floor.
Offset_rounded(o) == o.byte

\* Size.rounded: the byte ceiling.
Size_rounded(s) == s.byte + (IF s.bit # 0 THEN 1 ELSE 0)

\* An operand of the arithmetic: an _Offset, or a plain integer (carried in
\* byte, with bit 0).
OffsetArg(o) == [t |-> "Offset", byte |-> o.byte, bit |-> o.bit]
IntArg(n) == [t |-> "int", byte |-> n, bit |-> 0]

\* _Offset.__add__: self + other.
__add__(self, other) ==
    IF other.t = "Offset" THEN Offset_add(self, other)
    ELSE Offset(self.byte + other.byte, self.bit)

\* _Offset.__radd__: other + self for a plain integer other.
__radd__(self, other) == __add__(self, OffsetArg(Offset(other, 0)))

\* __sub__ with a borrow that takes 8 bits and leaves the byte as it was.
Offset_sub_borrow_dropped(self, other) ==
    IF other.t = "Offset"
    THEN LET bit == self.bit - other.bit
             byte == self.byte - other.byte
         IN  IF bit < 0 THEN Offset(byte, 8 + bit) ELSE Offset(byte, bit)
    ELSE Offset(self.byte - other.byte, self.bit)

\* _Offset.__sub__: self - other.
__sub__(self, other) ==
    IF other.t = "Offset"
    THEN LET bit == self.bit - other.bit
             byte == self.byte - other.byte
         IN  IF bit < 0 THEN Offset(byte - 1, 8 + bit) ELSE Offset(byte, bit)
    ELSE Offset(self.byte - other.byte, self.bit)

\* _Offset.__rsub__: other - self for a plain integer other.
__rsub__(self, other) == Offset(other - self.byte, self.bit)

\* _Offset.__eq__
__eq__(self, other) ==
    IF other.t = "Offset"
    THEN <<self.byte, self.bit>> = <<other.byte, other.bit>>
    ELSE <<self.byte, self.bit>> = <<other.byte, 0>>

\* The offsets the callers of the model pass.
Offsets == {Offset(0, 0), Offset(1, 0), Offset(0, 6)}

\* ------------------------------------------------------ bits of integers
RECURSIVE BitAnd(_, _)
\* a & b of two naturals.
BitAnd(a, b) ==
    IF a = 0 \/ b = 0 THEN 0
    ELSE 2 * BitAnd(a \div 2, b \div 2) + (IF a % 2 = 1 /\ b % 2 = 1 THEN 1 ELSE 0)

RECURSIVE BitOr(_, _)
\* a | b of two naturals.
BitOr(a, b) ==
    IF a = 0 THEN b
    ELSE IF b = 0 THEN a
    ELSE 2 * BitOr(a \div 2, b \div 2) + (IF a % 2 = 1 \/ b % 2 = 1 THEN 1 ELSE 0)

RECURSIVE BitXor(_, _)
\* a ^ b of two naturals.
BitXor(a, b) ==
    IF a = 0 THEN b
    ELSE IF b = 0 THEN a
    ELSE 2 * BitXor(a \div 2, b \div 2) + (IF a % 2 # b % 2 THEN 1 ELSE 0)

\* ----------------------------------------------------------------- struct
\* Results carry an error name; NoErr is a call that returned.
NoErr == "ok"

\* Byte count of a struct format character (standard sizes: an explicit
\* byte order is always given).
calcsize(ch) ==
    CASE ch \in {"b", "B"} -> 1
      [] ch \in {"h", "H"} -> 2
      [] ch \in {"i", "I"} -> 4
      [] ch \in {"q", "Q"} -> 8

\* Lower-case format characters are signed.
fmt_signed(ch) == ch \in {"b", "h", "i", "q"}

RECURSIVE be_value(_)
\* The natural number a byte sequence spells, most significant byte first.
be_value(bs) ==
    IF bs = <<>> THEN 0
    ELSE 256 * be_value(SubSeq(bs, 1, Len(bs) - 1)) + bs[Len(bs)]

\* bs reversed.
Reverse(bs) == [k \in 1..Len(bs) |-> bs[Len(bs) + 1 - k]]

\* The n bytes of the natural u, most significant byte first.
be_bytes(u, n) == [k \in 1..n |-> (u \div (256 ^ (n - k))) % 256]

\* struct.unpack_from(order + ch, b, offset)[0]
struct_unpack_from(order, ch, b, offset) ==
    LET n == calcsize(ch) IN
    IF offset < 0 \/ offset + n > Len(b)
    THEN [err |-> "struct.error", v |-> 0]
    ELSE LET raw == SubSeq(b, offset + 1, offset + n)
             u == be_value(IF order = "<" THEN Reverse(raw) ELSE raw)
         IN  [err |-> NoErr,
              v |-> IF fmt_signed(ch) /\ u >= (256 ^ n) \div 2
                    THEN u - 256 ^ n ELSE u]

\* struct.pack_into(order + ch, b, offset, v): the buffer afterwards.
struct_pack_into(order, ch, b, offset, v) ==
    LET n == calcsize(ch) IN
    IF offset < 0 \/ offset + n > Len(b)
    THEN [err |-> "struct.error", buf |-> b]
    ELSE LET lo == IF fmt_signed(ch) THEN 0 - ((256 ^ n) \div 2) ELSE 0
             hi == IF fmt_signed(ch) THEN ((256 ^ n) \div 2) - 1 ELSE 256 ^ n - 1
         IN  IF v < lo \/ v > hi
             THEN [err |-> "struct.error", buf |-> b]
             ELSE LET u == IF v < 0 THEN v + 256 ^ n ELSE v
                      be == be_bytes(u, n)
                      bytes == IF order = "<" THEN Reverse(be) ELSE be
                  IN  [err |-> NoErr,
                       buf |-> [k \in 1..Len(b) |->
                                  IF k > offset /\ k <= offset + n
                                  THEN bytes[k - offset] ELSE b[k]]]

\* ----------------------------------------------------------------- fields
\* IntField.__init__: size (an IntField.Size), signed, endianess (an
\* IntField.Endianess) and the table values -> Value (a table is the set of
\* its raw values: _values is keyed by it['value']).  The 4- and 8-byte
\* sizes exceed the integers TLC computes with and the buffers of the model;
\* _sig and calcsize keep them.
IntField(size, signed, endianess, values) ==
    [kind |-> "IntField", size |-> size, signed |-> signed,
     endianess |-> endianess, values |-> values]

\* The IntFields the model draws: both sizes, both signs, every byte order,
\* with and without a table.
IntFields ==
    {IntField(1, FALSE, "<", {}), IntField(1, TRUE, ">", {5}),
     IntField(2, FALSE, "!", {5}), IntField(2, TRUE, "<", {})}

\* BitField.__init__: size is the width in bits.
BitFields == [kind : {"BitField"}, size : {3, 10, 12}]

\* BitFields whose bits, from bit offset 6, need more than two bytes (12)
\* and more than eight (60).
WideBitFields == [kind : {"BitField"}, size : {12, 60}]

\* ByteArrayField.__init__: size is a byte count (ref FALSE), or the field
\* `length` declared before it in the structure (ref TRUE; size is 0 then).
ByteArrayField(size, ref) == [kind |-> "ByteArrayField", size |-> size, ref |-> ref]

\* The field `length` of the structure: length = IntField(...), then
\* data = ByteArrayField(size=length).  One byte wide here, where the
\* structure of tests/ndh/steg200.py has INT32.
LengthField == IntField(1, FALSE, "<", {})

\* The fields `data` the model draws: two bytes, and as many as length says.
ByteArrayFields == {ByteArrayField(2, FALSE), ByteArrayField(0, TRUE)}

\* The offsets the callers of the model pass to decode and encode.
CallOffsets(f) ==
    CASE f.kind = "BitField" -> {Offset(0, 0), Offset(0, 6)}
      [] f.kind = "ByteArrayField" -> {Offset(0, 0), Offset(1, 0)}
      [] OTHER -> {Offset(0, 0)}

\* BitMaskField: an IntField whose table names the flags.
BitMaskFields ==
    [kind : {"BitMaskField"}, size : {1}, signed : {FALSE},
     endianess : {"<"}, values : {{1, 2}, {1, 2, 3}, {1, 4, 6}}]

\* str.upper of a format character.
upper(ch) == CASE ch = "b" -> "B" [] ch = "h" -> "H" [] ch = "i" -> "I" [] ch = "q" -> "Q"

\* IntField._sig: the byte order, then 'bhiq'[log2[size.byte]], upper-cased
\* for an unsigned field.
_sig(f, size) ==
    LET ch == CASE size.byte = 1 -> "b" [] size.byte = 2 -> "h"
                [] size.byte = 4 -> "i" [] size.byte = 8 -> "q"
    IN  [order |-> f.endianess, ch |-> IF f.signed THEN ch ELSE upper(ch)]

\* metaconf('aligned'): AbstractField.MetaBase.aligned unless the class's
\* Meta overrides it, as BitField.Meta does.
metaconf_aligned(f) == f.kind # "BitField"

\* ------------------------------------------------------------------ state
VARIABLES
    field,         \* the field the behaviour follows (fixed by Init)
    buf,           \* Data.buf: the bytes
    mutable,       \* whether Data.buf supports item assignment (bytearray, PROT_WRITE mmap)
    ro,            \* Data.ro
    fields_data,   \* instance._srddl.fields_data of each instance: a dict
    get_cache,     \* lru_cache of the __get__ wrapper: instance -> BoundValue
    decode_cache,  \* lru_cache of the decode wrapper: <<instance, offset>> -> result
    buf_reads,     \* history: buffer reads made by decode, per <<instance, offset>>
    seen,          \* history: the value each instance's last read returned, emptied by a write
    nb_bv,         \* BoundValue objects constructed so far (the next one's identity)
    _mapped,       \* Data._mapped: offset -> the structures mapped there, in order
    last           \* the last call: its name, arguments, error and result (again: a
                   \* value read that follows another with no write in between)

vars == <<field, buf, mutable, ro, fields_data, get_cache, decode_cache,
          buf_reads, seen, nb_bv, _mapped, last>>

\* The element of a one-element set.  The({e(x) : x \in {v}}) is e(v) with v
\* evaluated once, where LET would expand it at every use.
The(S) == CHOOSE x \in S : TRUE

\* A dict with no key.
EmptyDict == [k \in {} |-> 0]

\* d[k] = v
DictSet(d, k, v) == [x \in (DOMAIN d) \cup {k} |-> IF x = k THEN v ELSE d[x]]

\* Python's None as a result.
None == [t |-> "None"]

\* AbstractField._get_data on the dict d of an instance.
_get_data(d, name) ==
    IF name \notin DOMAIN d
    THEN [err |-> "NoFieldDataError"]
    ELSE [err |-> NoErr, v |-> d[name]]

\* AbstractField._set_data on the dict d of an instance.
_set_data(d, name, value) == DictSet(d, name, value)

\* _data_key for the field `length`: the keys of a dict embed id(field), so
\* the entries of `length` and those of the field followed never meet.
LengthKey(name) ==
    CASE name = "status" -> "length_status" [] name = "boundvalue" -> "length_boundvalue"

\* The entries of `length` in the dict d, under their state names.
LengthData(d) ==
    [name \in {n \in {"status", "boundvalue"} : LengthKey(n) \in DOMAIN d} |->
       d[LengthKey(name)]]

\* The dict d with the entries of `length` replaced by those of dl.
WithLengthData(d, dl) ==
    LET keys == {LengthKey("status"), LengthKey("boundvalue")} IN
    [k \in ((DOMAIN d) \ keys) \cup {LengthKey(n) : n \in DOMAIN dl} |->
       IF k \in keys
       THEN dl[CHOOSE n \in DOMAIN dl : LengthKey(n) = k]
       ELSE d[k]]

\* Data.__init__: the write probe buf[0] = buf[0] turns ro on when it raises.
Data_init(is_mutable, ro_arg) == IF is_mutable THEN ro_arg ELSE TRUE

\* Data.unpack_from
unpack_from(order, ch, offset) == struct_unpack_from(order, ch, buf, offset)

\* A bytes object.
Bytes(bs) == [t |-> "bytes", v |-> bs]

\* Data.unpack_from with the format '{n}s': n bytes from offset.
unpack_from_s(n, offset) ==
    IF n < 0 \/ offset < 0 \/ offset + n > Len(buf)
    THEN [err |-> "struct.error", v |-> Bytes(<<>>)]
    ELSE [err |-> NoErr, v |-> Bytes(SubSeq(buf, offset + 1, offset + n))]

\* pack_into without the test of ro.
pack_into_unchecked(order, ch, offset, value) ==
    IF ~mutable THEN [err |-> "TypeError", buf |-> buf]
    ELSE struct_pack_into(order, ch, buf, offset, value)

\* Data.pack_into: the error and the buffer afterwards.
pack_into(order, ch, offset, value) ==
    IF ro THEN [err |-> "Exception", buf |-> buf]
    ELSE IF ~mutable THEN [err |-> "TypeError", buf |-> buf]
    ELSE struct_pack_into(order, ch, buf, offset, value)

\* ------------------------------------------------------------ bound values
\* BoundValue.__init__ via AbstractField.initialize: the object (its identity
\* id), the instance and the offset it is bound to.
BoundValue(id, instance, offset) == [id |-> id, instance |-> instance, offset |-> offset]

\* BoundValue._size: Size(byte=field._size), a plain integer here.
BoundValue_size(f, bv) == [t |-> "Size", size |-> Offset(f.size, 0)]

\* BitFieldBoundValue._size: Size(bit=field._size); when the bytes that cover
\* it from the bound value's bit offset are no IntField.Size, the error
\* object is RETURNED as the size.
BitFieldBoundValue_size(f, bv) ==
    LET size == Offset(0, f.size) IN
    IF Size_rounded(Offset_add(size, Offset(0, bv.offset.bit))) \notin {1, 2, 4, 8}
    THEN [t |-> "BifFieldSizeError", size |-> size]
    ELSE [t |-> "Size", size |-> size]

\* bv['size'] with metaconf('boundvalue_class') of the field's class.
bv_size(f, bv) ==
    IF f.kind = "BitField" THEN BitFieldBoundValue_size(f, bv) ELSE BoundValue_size(f, bv)

\* helpers.reference_value(instance, field._size) on the per-instance dict
\* d: a plain integer is itself; the field `length` is resolved to its
\* decoded integer, FieldNotReadyError unless `length` is Ready.
reference_value(d, f) ==
    IF ~f.ref THEN [err |-> NoErr, v |-> f.size]
    ELSE The({IF "status" \notin DOMAIN dl \/ dl["status"] # OK
              THEN [err |-> "FieldNotReadyError", v |-> 0]
              ELSE IF "boundvalue" \notin DOMAIN dl
              THEN [err |-> "NoFieldDataError", v |-> 0]
              ELSE The({unpack_from(sig.order, sig.ch, dl["boundvalue"].offset.byte)
                        : sig \in {_sig(LengthField, Offset(LengthField.size, 0))}})
              : dl \in {LengthData(d)}})

\* bv['size'] on the per-instance dict d: BoundValue._size of a
\* ByteArrayField is Size(byte=reference_value(...)), which can raise.
size_of(d, f, bv) ==
    IF f.kind = "ByteArrayField"
    THEN The({IF v.err # NoErr THEN [err |-> v.err, res |-> None]
              ELSE [err |-> NoErr, res |-> [t |-> "Size", size |-> Offset(v.v, 0)]]
              : v \in {reference_value(d, f)}})
    ELSE [err |-> NoErr, res |-> bv_size(f, bv)]

\* ------------------------------------------------------------- initialize
\* AbstractField.initialize(instance, offset): the alignment check, the new
\* BoundValue registered under 'boundvalue', bv['size'] returned.
initialize(f, d, instance, offset, id) ==
    IF metaconf_aligned(f) /\ ~aligned(offset)
    THEN [err |-> "FieldAlignmentError", data |-> d, res |-> None, made |-> 0]
    ELSE The({The({[err |-> sz.err, data |-> d1, res |-> sz.res, made |-> 1]
                   : sz \in {size_of(d1, f, d1["boundvalue"])}})
              : d1 \in {_set_data(d, "boundvalue", BoundValue(id, instance, offset))}})

\* initialize_wrapper with the promotion test written status == KO: a call
\* that finds OK stores INIT and stops there.
initialize_wrapper_promote_from_KO(f, d, instance, offset, id) ==
    LET g == _get_data(d, "status")
        status == IF g.err = NoErr THEN g.v ELSE KO
        d1 == _set_data(d, "status", INIT)
    IN  [err |-> NoErr,
         data |-> IF status = KO THEN _set_data(d1, "status", OK) ELSE d1,
         res |-> None,
         made |-> 0,
         status |-> status]

\* The initialize wrapper of _MetaAbstractField.__new__ (lines 36-54): it
\* reads the status (KO when there is none), stores INIT, and stores OK
\* unless it found INIT.  It makes no other call and returns nothing.
initialize_wrapper(f, d, instance, offset, id) ==
    LET g == _get_data(d, "status")
        status == IF g.err = NoErr THEN g.v ELSE KO
        d1 == _set_data(d, "status", INIT)
    IN  [err |-> NoErr,
         data |-> IF status # INIT THEN _set_data(d1, "status", OK) ELSE d1,
         res |-> None,
         made |-> 0,
         status |-> status]

\* ---------------------------------------------------------------- __get__
\* The __get__ wrapper of _MetaAbstractField.__new__ (lines 59-68) around
\* AbstractField.__get__ (lines 302-304), not counting its lru_cache: the
\* status must be OK, then the registered 'boundvalue' is returned (always a
\* BoundValue, so NotABoundValueError is never raised).  The lru_cache of
\* the inner __get__ is filled by the same calls as the wrapper's and only
\* consulted when the wrapper's misses: get_cache stands for both.
__get__(d) ==
    LET s == _get_data(d, "status") IN
    IF s.err # NoErr THEN [err |-> s.err]
    ELSE IF s.v # OK THEN [err |-> "FieldNotReadyError"]
    ELSE _get_data(d, "boundvalue")

\* functools.lru_cache around the wrapper: a call that returned is repeated
\* from the cache; a call that raised is not cached.
get(instance) ==
    IF instance \in DOMAIN get_cache
    THEN [err |-> NoErr, v |-> get_cache[instance]]
    ELSE __get__(fields_data[instance])

\* The cache after a call of get(instance).
get_cache_after(instance) ==
    IF get(instance).err = NoErr
    THEN DictSet(get_cache, instance, get(instance).v)
    ELSE get_cache

\* ------------------------------------------------------- decode and encode
\* A decoded integer, and a table entry (a Value) whose raw value is v.
PyInt(v) == [t |-> "int", v |-> v]
Value(v) == [t |-> "Value", v |-> v]

\* IntField.decode: the size of the bound value __get__ returns, the
\* integer unpacked at offset.byte, its table entry when it has one.
\* read: whether the buffer was read.
IntField_decode(f, instance, offset) ==
    The({IF g.err # NoErr THEN [err |-> g.err, res |-> None, read |-> FALSE]
         ELSE The({The({IF u.err # NoErr
                        THEN [err |-> u.err, res |-> None, read |-> FALSE]
                        ELSE [err |-> NoErr,
                              res |-> IF u.v \in f.values THEN Value(u.v) ELSE PyInt(u.v),
                              read |-> TRUE]
                        : u \in {unpack_from(sig.order, sig.ch, offset.byte)}})
                   : sig \in {_sig(f, bv_size(f, g.v).size)}})
         : g \in {get(instance)}})

\* IntField.encode: pack_into at offset.byte.
IntField_encode(f, instance, offset, value) ==
    The({IF g.err # NoErr THEN [err |-> g.err, buf |-> buf]
         ELSE The({pack_into(sig.order, sig.ch, offset.byte, value)
                   : sig \in {_sig(f, bv_size(f, g.v).size)}})
         : g \in {get(instance)}})

\* BitField._mask
_mask(size) == 2 ^ (size.byte * 8 + size.bit) - 1

\* 'BHIQ'[log2[n]] of BitField.decode and BitField.encode; KeyError when n
\* is no key of log2.
BitField_sig(n) ==
    IF n \notin {1, 2, 4, 8} THEN [err |-> "KeyError"]
    ELSE [err |-> NoErr,
          ch |-> CASE n = 1 -> "B" [] n = 2 -> "H" [] n = 4 -> "I" [] n = 8 -> "Q"]

\* BitField.decode: the enclosing little-endian unsigned integer at
\* offset.rounded(), masked and shifted right by offset.bit.  A size that is
\* the error object cannot be added to a Size: TypeError.
BitField_decode(f, instance, offset) ==
    The({IF g.err # NoErr THEN [err |-> g.err, res |-> None, read |-> FALSE]
         ELSE The({IF sz.t # "Size" THEN [err |-> "TypeError", res |-> None, read |-> FALSE]
                   ELSE The({IF sig.err # NoErr
                             THEN [err |-> sig.err, res |-> None, read |-> FALSE]
                             ELSE The({IF u.err # NoErr
                                       THEN [err |-> u.err, res |-> None, read |-> FALSE]
                                       ELSE [err |-> NoErr,
                                             res |-> PyInt(BitAnd(u.v, _mask(sz.size) * (2 ^ offset.bit))
                                                           \div (2 ^ offset.bit)),
                                             read |-> TRUE]
                                       : u \in {unpack_from("<", sig.ch, Offset_rounded(offset))}})
                             : sig \in {BitField_sig(Size_rounded(
                                           Offset_add(sz.size, Offset(0, offset.bit))))}})
                   : sz \in {bv_size(f, g.v)}})
         : g \in {get(instance)}})

\* BitField.encode: line 119 passes the method offset.rounded itself, not
\* its result, as the offset of unpack_from, which struct refuses with a
\* TypeError; the read-modify-write after it (lines 120-123) is never run.
BitField_encode(f, instance, offset, value) ==
    The({IF g.err # NoErr THEN [err |-> g.err, buf |-> buf]
         ELSE The({IF sz.t # "Size" THEN [err |-> "TypeError", buf |-> buf]
                   ELSE The({IF sig.err # NoErr THEN [err |-> sig.err, buf |-> buf]
                             ELSE [err |-> "TypeError", buf |-> buf]
                             : sig \in {BitField_sig(Size_rounded(
                                           Offset_add(sz.size, Offset(0, offset.bit))))}})
                   : sz \in {bv_size(f, g.v)}})
         : g \in {get(instance)}})

RECURSIVE OrAll(_)
\* The | of a set of naturals.
OrAll(S) == IF S = {} THEN 0 ELSE LET x == CHOOSE y \in S : TRUE IN BitOr(x, OrAll(S \ {x}))

\* A list of table entries (named, by raw value) followed by plain integers.
List(named, unnamed) == [t |-> "list", named |-> named, unnamed |-> unnamed]

\* BitMaskField.decode after super().decode returned nb: [nb] when nb is a
\* table entry; else every entry with val_num & nb non-zero, then nb ^ mask
\* when mask # nb; [nb] when that list is empty.
BitMaskField_list(values, nb) ==
    IF nb.t = "Value" THEN List({nb.v}, <<>>)
    ELSE The({The({IF mask # nb.v THEN List(res, <<BitXor(nb.v, mask)>>)
                   ELSE IF res = {} THEN List({}, <<nb.v>>)
                   ELSE List(res, <<>>)
                   : mask \in {OrAll(res)}})
              : res \in {{val_num \in values : BitAnd(val_num, nb.v) # 0}}})

\* BitMaskField.decode
BitMaskField_decode(f, instance, offset) ==
    The({IF r.err # NoErr THEN r
         ELSE [err |-> NoErr, res |-> BitMaskField_list(f.values, r.res), read |-> r.read]
         : r \in {IntField_decode(f, instance, offset)}})

\* ByteArrayField.decode: size.byte bytes unpacked at offset.byte.
ByteArrayField_decode(f, instance, offset) ==
    The({IF g.err # NoErr THEN [err |-> g.err, res |-> None, read |-> FALSE]
         ELSE The({IF sz.err # NoErr THEN [err |-> sz.err, res |-> None, read |-> FALSE]
                   ELSE The({IF u.err # NoErr
                             THEN [err |-> u.err, res |-> None, read |-> FALSE]
                             ELSE [err |-> NoErr, res |-> u.v, read |-> TRUE]
                             : u \in {unpack_from_s(sz.res.size.byte, offset.byte)}})
                   : sz \in {size_of(fields_data[instance], f, g.v)}})
         : g \in {get(instance)}})

\* ByteArrayField.encode of a bytes value: line 83 pads with
\* value.ljust(size.byte, '\x00'), whose fill character is a str, which
\* bytes.ljust refuses with a TypeError whatever the lengths; the slice and
\* pack_into after it (lines 83-84) are never run.
ByteArrayField_encode(f, instance, offset, value) ==
    The({IF g.err # NoErr THEN [err |-> g.err, buf |-> buf]
         ELSE The({IF sz.err # NoErr THEN [err |-> sz.err, buf |-> buf]
                   ELSE [err |-> "TypeError", buf |-> buf]
                   : sz \in {size_of(fields_data[instance], f, g.v)}})
         : g \in {get(instance)}})

\* field.decode before the metaclass wraps it.
field_decode(f, instance, offset) ==
    CASE f.kind = "IntField" -> IntField_decode(f, instance, offset)
      [] f.kind = "ByteArrayField" -> ByteArrayField_decode(f, instance, offset)
      [] f.kind = "BitField" -> BitField_decode(f, instance, offset)
      [] f.kind = "BitMaskField" -> BitMaskField_decode(f, instance, offset)

\* field.encode
encode(f, instance, offset, value) ==
    CASE f.kind = "BitField" -> BitField_encode(f, instance, offset, value)
      [] f.kind = "ByteArrayField" -> ByteArrayField_encode(f, instance, offset, value)
      [] OTHER -> IntField_encode(f, instance, offset, value)

\* decode without the lru_cache: every call runs the field's decode.
decode_uncached(f, instance, offset) ==
    The({[err |-> r.err, res |-> r.res, read |-> r.read, hit |-> FALSE]
         : r \in {field_decode(f, instance, offset)}})

\* The decode wrapper of _MetaAbstractField.__new__ (lines 71-78):
\* functools.lru_cache keyed by (field, instance, offset) -- an Offset hashes
\* and compares by (byte, bit).  hit: answered from the cache.
decode(f, instance, offset) ==
    IF <<instance, offset>> \in DOMAIN decode_cache
    THEN [err |-> NoErr, res |-> decode_cache[<<instance, offset>>],
          read |-> FALSE, hit |-> TRUE]
    ELSE The({[err |-> r.err, res |-> r.res, read |-> r.read, hit |-> FALSE]
              : r \in {field_decode(f, instance, offset)}})

\* BoundValue._value: decode at the bound value's offset; a Value is
\* unwrapped to its raw value (raw: what decode returned).
BoundValue_value(f, bv) ==
    The({[err |-> r.err,
          res |-> IF r.err = NoErr /\ r.res.t = "Value" THEN PyInt(r.res.v) ELSE r.res,
          raw |-> r.res, read |-> r.read, hit |-> r.hit]
         : r \in {decode(f, bv.instance, bv.offset)}})

\* ---------------------------------------------------------------- actions
\* The values the callers of the model write.
WriteValues == {0 - 1, 5}

\* The bytes a buffer is made of at construction.
ByteSamples(f) == IF f.kind = "BitMaskField" THEN {3, 5, 7} ELSE {5, 255}

\* field.initialize(instance, offset) with the method AbstractField.initialize.
Initialize(instance, offset) ==
    /\ nb_bv < MaxBV
    /\ \E r \in {initialize(field, fields_data[instance], instance, offset, nb_bv + 1)} :
       /\ fields_data' = [fields_data EXCEPT ![instance] = r.data]
       /\ nb_bv' = nb_bv + r.made
       /\ last' = [op |-> "initialize", instance |-> instance, offset |-> offset,
                   wrapper |-> FALSE, err |-> r.err, res |-> r.res]
    /\ UNCHANGED <<_mapped, field, buf, mutable, ro, get_cache, decode_cache, buf_reads, seen>>

\* field.initialize(instance, offset) with the metaclass's wrapper.
InitializeWrapper(instance, offset) ==
    /\ \E r \in {initialize_wrapper(field, fields_data[instance], instance, offset, nb_bv + 1)} :
       /\ fields_data' = [fields_data EXCEPT ![instance] = r.data]
       /\ nb_bv' = nb_bv + r.made
       /\ last' = [op |-> "initialize", instance |-> instance, offset |-> offset,
                   wrapper |-> TRUE, err |-> r.err, res |-> r.res, status |-> r.status]
    /\ UNCHANGED <<_mapped, field, buf, mutable, ro, get_cache, decode_cache, buf_reads, seen>>

\* instance.field: the read of the field, field.__get__(instance).
Get(instance) ==
    /\ LET g == get(instance) IN
       last' = [op |-> "__get__", instance |-> instance, err |-> g.err,
                res |-> IF g.err = NoErr THEN [t |-> "BoundValue", bv |-> g.v] ELSE None]
    /\ get_cache' = get_cache_after(instance)
    /\ UNCHANGED <<_mapped, field, buf, mutable, ro, fields_data, decode_cache, buf_reads, seen, nb_bv>>

\* instance.field['value']: the read of the field, then BoundValue._value.
ReadValue(instance) ==
    LET g == get(instance) IN
    IF g.err # NoErr
    THEN /\ last' = [op |-> "value", instance |-> instance, err |-> g.err, res |-> None,
                     again |-> instance \in DOMAIN seen]
         /\ UNCHANGED <<_mapped, field, buf, mutable, ro, fields_data, get_cache, decode_cache,
                        buf_reads, seen, nb_bv>>
    ELSE \E r \in {BoundValue_value(field, g.v)} :
         /\ last' = [op |-> "value", instance |-> instance, err |-> r.err, res |-> r.res,
                     again |-> instance \in DOMAIN seen]
         /\ get_cache' = get_cache_after(instance)
         /\ decode_cache' = IF r.err = NoErr /\ ~r.hit
                            THEN DictSet(decode_cache, <<instance, g.v.offset>>, r.raw)
                            ELSE decode_cache
         /\ buf_reads' = IF r.read /\ buf_reads[<<instance, g.v.offset>>] < MaxReads
                         THEN [buf_reads EXCEPT ![<<instance, g.v.offset>>] = @ + 1]
                         ELSE buf_reads
         /\ seen' = IF r.err = NoErr THEN DictSet(seen, instance, r.res) ELSE seen
         /\ UNCHANGED <<_mapped, field, buf, mutable, ro, fields_data, nb_bv>>

\* field.decode(instance, offset), called as the fields call it.
Decode(instance, offset) ==
    /\ offset \in CallOffsets(field)
    /\ \E r \in {decode(field, instance, offset)} :
       /\ last' = [op |-> "decode", instance |-> instance, offset |-> offset,
                   err |-> r.err, res |-> r.res]
       /\ get_cache' = IF r.hit THEN get_cache ELSE get_cache_after(instance)
       /\ decode_cache' = IF r.err = NoErr /\ ~r.hit
                          THEN DictSet(decode_cache, <<instance, offset>>, r.res)
                          ELSE decode_cache
       /\ buf_reads' = IF r.read /\ buf_reads[<<instance, offset>>] < MaxReads
                       THEN [buf_reads EXCEPT ![<<instance, offset>>] = @ + 1]
                       ELSE buf_reads
    /\ UNCHANGED <<_mapped, field, buf, mutable, ro, fields_data, seen, nb_bv>>

\* field.encode(instance, offset, value)
Encode(instance, offset, value) ==
    /\ offset \in CallOffsets(field)
    /\ \E e \in {encode(field, instance, offset, value)} :
       /\ last' = [op |-> "encode", instance |-> instance, offset |-> offset,
                   value |-> value, err |-> e.err, res |-> None]
       /\ buf' = e.buf
    /\ get_cache' = get_cache_after(instance)
    /\ seen' = EmptyDict
    /\ UNCHANGED <<_mapped, field, mutable, ro, fields_data, decode_cache, buf_reads, nb_bv>>

\* instance.field.set(value): the read of the field, then BoundValue.set,
\* which is field.encode at the bound value's offset.
Set(instance, value) ==
    LET g == get(instance) IN
    IF g.err # NoErr
    THEN /\ last' = [op |-> "set", instance |-> instance, value |-> value,
                     err |-> g.err, res |-> None]
         /\ UNCHANGED <<_mapped, field, buf, mutable, ro, fields_data, get_cache, decode_cache,
                        buf_reads, seen, nb_bv>>
    ELSE \E e \in {encode(field, g.v.instance, g.v.offset, value)} :
         /\ last' = [op |-> "set", instance |-> instance, value |-> value,
                     err |-> e.err, res |-> None]
         /\ buf' = e.buf
         /\ get_cache' = get_cache_after(instance)
         /\ seen' = EmptyDict
         /\ UNCHANGED <<_mapped, field, mutable, ro, fields_data, decode_cache, buf_reads, nb_bv>>

\* data.pack_into('<B', offset, value), called on the Data itself.
PackInto(offset, value) ==
    /\ \E e \in {pack_into("<", "B", offset, value)} :
       /\ last' = [op |-> "pack_into", offset |-> Offset(offset, 0), value |-> value,
                   err |-> e.err, res |-> None]
       /\ buf' = e.buf
    /\ seen' = EmptyDict
    /\ UNCHANGED <<_mapped, field, mutable, ro, fields_data, get_cache, decode_cache, buf_reads, nb_bv>>

\* The state after Data(buf, ro) and the structure instances are made:
\* no per-instance field state, empty caches.
InitOn(fields, len) ==
    /\ field \in fields
    /\ buf \in {[k \in 1..len |-> b] : b \in ByteSamples(field)}
    /\ mutable \in BOOLEAN
    /\ \E ro_arg \in BOOLEAN : ro = Data_init(mutable, ro_arg)
    /\ fields_data = [i \in Instances |-> EmptyDict]
    /\ get_cache = EmptyDict
    /\ decode_cache = EmptyDict
    /\ buf_reads = [k \in Instances \X Offsets |-> 0]
    /\ seen = EmptyDict
    /\ nb_bv = 0
    /\ _mapped = EmptyDict
    /\ last = [op |-> "new", err |-> NoErr, res |-> None]

\* The same on a buffer of BufLen bytes.
InitWith(fields) == InitOn(fields, BufLen)

Init == InitWith(IntFields)

InitBitField == InitWith(BitFields)

InitBitMask == InitWith(BitMaskFields)

InitAll == InitWith(IntFields \cup BitFields \cup BitMaskFields)

InitWideBitField == InitOn(WideBitFields, WideBufLen)

Next ==
    \/ \E i \in Instances, o \in Offsets : Initialize(i, o)
    \/ \E i \in Instances, o \in Offsets : InitializeWrapper(i, o)
    \/ \E i \in Instances : Get(i)
    \/ \E i \in Instances : ReadValue(i)
    \/ \E i \in Instances, o \in Offsets : Decode(i, o)
    \/ \E i \in Instances, o \in Offsets, v \in WriteValues : Encode(i, o, v)
    \/ \E i \in Instances, v \in WriteValues : Set(i, v)
    \/ PackInto(0, 5)

\* One IntField of a structure.
Spec == Init /\ [][Next]_vars

\* One BitField of a structure.
SpecBitField == InitBitField /\ [][Next]_vars

\* One BitMaskField of a structure.
SpecBitMask == InitBitMask /\ [][Next]_vars

\* One field of any of the three kinds.
SpecAll == InitAll /\ [][Next]_vars

\* One wide BitField of a structure.
SpecWideBitField == InitWideBitField /\ [][Next]_vars

\* ---------------------------------------------------------- a structure
\* The bytes values the callers of the model write: shorter than the two
\* bytes of the field, as long, longer.
ByteValues == {Bytes(<<72>>), Bytes(<<72, 73>>), Bytes(<<72, 73, 74>>)}

\* The buffers a structure is mapped on: the byte of `length`, then bytes.
StructBufs == {<<2, 104, 105, 33>>, <<1, 104, 105, 33>>}

\* The initialization pass of the structure (length, data) mapped at offset:
\* each field in order is initialized through the initialize its class
\* publishes, at the offset of the field before it plus the size that
\* field's initialize returned (Offset + anything that is no Size or integer
\* is a TypeError).
_setup(f, d, instance, offset, id) ==
    The({IF r1.err # NoErr \/ r1.res.t # "Size"
         THEN [err |-> IF r1.err # NoErr THEN r1.err ELSE "TypeError",
               data |-> WithLengthData(d, r1.data), made |-> r1.made]
         ELSE The({[err |-> IF r2.err # NoErr THEN r2.err
                            ELSE IF r2.res.t # "Size" THEN "TypeError" ELSE NoErr,
                    data |-> r2.data, made |-> r1.made + r2.made]
                   : r2 \in {initialize_wrapper(f, WithLengthData(d, r1.data), instance,
                                                Offset_add(offset, r1.res.size),
                                                id + r1.made)}})
         : r1 \in {initialize_wrapper(LengthField, LengthData(d), instance, offset, id)}})

\* Data.map(offset, struct) on an instance not set up yet: s._setup(data).
Setup(instance, offset) ==
    /\ field.kind = "ByteArrayField"
    /\ aligned(offset)
    /\ DOMAIN LengthData(fields_data[instance]) = {}
    /\ \E r \in {_setup(field, fields_data[instance], instance, offset, nb_bv + 1)} :
       /\ fields_data' = [fields_data EXCEPT ![instance] = r.data]
       /\ nb_bv' = nb_bv + r.made
       /\ last' = [op |-> "_setup", instance |-> instance, offset |-> offset,
                   err |-> r.err, res |-> None]
    /\ UNCHANGED <<_mapped, field, buf, mutable, ro, get_cache, decode_cache, buf_reads, seen>>

\* The state after Data(buf, ro) and the instances of the structure.
InitStruct ==
    /\ field \in ByteArrayFields
    /\ buf \in StructBufs
    /\ mutable \in BOOLEAN
    /\ \E ro_arg \in BOOLEAN : ro = Data_init(mutable, ro_arg)
    /\ fields_data = [i \in Instances |-> EmptyDict]
    /\ get_cache = EmptyDict
    /\ decode_cache = EmptyDict
    /\ buf_reads = [k \in Instances \X Offsets |-> 0]
    /\ seen = EmptyDict
    /\ nb_bv = 0
    /\ _mapped = EmptyDict
    /\ last = [op |-> "new", err |-> NoErr, res |-> None]

NextStruct ==
    \/ \E i \in Instances, o \in Offsets : Setup(i, o)
    \/ \E i \in Instances, o \in Offsets : Initialize(i, o)
    \/ \E i \in Instances, o \in Offsets : InitializeWrapper(i, o)
    \/ \E i \in Instances : Get(i)
    \/ \E i \in Instances : ReadValue(i)
    \/ \E i \in Instances, o \in Offsets : Decode(i, o)
    \/ \E i \in Instances, o \in Offsets, v \in ByteValues : Encode(i, o, v)
    \/ \E i \in Instances, v \in ByteValues : Set(i, v)
    \/ PackInto(0, 5)

\* The field `data` of a structure (length, data).
SpecStruct == InitStruct /\ [][NextStruct]_vars

\* ------------------------------------------------- arithmetic of offsets
\* The (byte, bit) pairs offsets are constructed from, and the operands.
ByteArgs == (0 - 1)..1
BitArgs == {0 - 9, 0 - 1, 0, 3, 7, 8, 13}
Operands ==
    {IntArg(n) : n \in ByteArgs} \cup
    {OffsetArg(Offset(b, bit)) : b \in ByteArgs, bit \in {0, 3, 5, 7}}

\* The number of bits an operand or an offset stands for.
Bits(o) == 8 * o.byte + o.bit

\* Whether the byte component is one the model follows.
InRange(o) == o.byte >= 0 - MaxByte /\ o.byte <= MaxByte

\* The call of an operation of the arithmetic: last holds the offset it was
\* made on (self), the operand, the offset returned and the number of bits
\* exact arithmetic gives (undoes: a subtraction of the operand the call
\* before it added).  The next call is made on the offset returned.
OffsetCall(op, other, res, exact) ==
    /\ last.op \in {"Offset", "add", "radd", "sub", "rsub"}
    /\ InRange(res)
    /\ last' = [op |-> op, self |-> last.res, other |-> other, err |-> NoErr,
                res |-> res, exact |-> exact,
                undoes |-> op = "sub" /\ last.op = "add" /\ last.other = other]
    /\ UNCHANGED <<_mapped, field, buf, mutable, ro, fields_data, get_cache, decode_cache,
                   buf_reads, seen, nb_bv>>

\* offset + other
OffsetAdd(other) ==
    /\ other \in Operands
    /\ OffsetCall("add", other, __add__(last.res, other), Bits(last.res) + Bits(other))

\* n + offset
OffsetRAdd(n) ==
    /\ n \in ByteArgs
    /\ OffsetCall("radd", IntArg(n), __radd__(last.res, n), 8 * n + Bits(last.res))

\* offset - other
OffsetSub(other) ==
    /\ other \in Operands
    /\ OffsetCall("sub", other, __sub__(last.res, other), Bits(last.res) - Bits(other))

\* n - offset
OffsetRSub(n) ==
    /\ n \in ByteArgs
    /\ OffsetCall("rsub", IntArg(n), __rsub__(last.res, n), 8 * n - Bits(last.res))

\* Offset(byte, bit) constructed from a pair of integers, beside a Data
\* nothing is bound to.
InitOffset ==
    /\ field = IntField(1, FALSE, "<", {})
    /\ buf = [k \in 1..BufLen |-> 0]
    /\ mutable = TRUE
    /\ ro = Data_init(mutable, FALSE)
    /\ fields_data = [i \in Instances |-> EmptyDict]
    /\ get_cache = EmptyDict
    /\ decode_cache = EmptyDict
    /\ buf_reads = [k \in Instances \X Offsets |-> 0]
    /\ seen = EmptyDict
    /\ nb_bv = 0
    /\ _mapped = EmptyDict
    /\ \E byte \in ByteArgs, bit \in BitArgs :
         last = [op |-> "Offset", self |-> Offset(0, 0), other |-> IntArg(0),
                 err |-> NoErr, res |-> Offset(byte, bit), exact |-> 8 * byte + bit,
                 undoes |-> FALSE]

NextOffset ==
    \/ \E other \in Operands : OffsetAdd(other)
    \/ \E n \in ByteArgs : OffsetRAdd(n)
    \/ \E other \in Operands : OffsetSub(other)
    \/ \E n \in ByteArgs : OffsetRSub(n)

\* The arithmetic of offsets.
SpecOffset == InitOffset /\ [][NextOffset]_vars

\* ------------------------------------------------------ mapping on a Data
\* What Data.map needs of its argument struct: the class is called with
\* (data, offset), and the instance answers _setup(data) and ['size'].  The
\* size of the instances and the outcome of their _setup belong to the class
\* (what a pass does to the fields is followed by Setup above).
StructClasses ==
    {[name |-> "Byte", size |-> Offset(1, 0), setup |-> NoErr],
     [name |-> "Nibble", size |-> Offset(0, 4), setup |-> NoErr],
     [name |-> "Chunk", size |-> Offset(1, 0), setup |-> "TypeError"]}

\* The offsets the callers of map, map_array and mapped pass: plain integers
\* and Offsets.
MapArgs == {IntArg(1), OffsetArg(Offset(1, 0)), OffsetArg(Offset(0, 4))}

\* The numbers of structures map_array is asked for.
NbArgs == 0..2

\* The filters mapped is given: None, or lambda x: isinstance(x, cls).
Filters == {None} \cup {[t |-> "isinstance", cls |-> c.name] : c \in StructClasses}

\* fltr is None or fltr(x)
passes(fltr, x) == fltr.t = "None" \/ x.cls = fltr.cls

\* Offset(offset): the copy of an _Offset, or (n, 0) for an integer.
Offset_of(arg) == Offset(arg.byte, arg.bit)

\* _Offset.__hash__: the hash of the string '{byte}::{bit}', held as the
\* pair the string is formatted from.
__hash__(self) == <<self.byte, self.bit>>

\* The keys of the dict m that a lookup of k finds: same hash, and equal.
dict_keys(m, k) ==
    {j \in DOMAIN m : __hash__(j) = __hash__(k) /\ __eq__(j, OffsetArg(k))}

\* m.get(k, default)
dict_get(m, k, default) ==
    IF dict_keys(m, k) = {} THEN default ELSE m[The(dict_keys(m, k))]

\* m[k] = v: the key found is kept, a new one is k.
dict_set(m, k, v) ==
    IF dict_keys(m, k) = {} THEN DictSet(m, k, v)
    ELSE DictSet(m, The(dict_keys(m, k)), v)

\* struct(data, offset): the instance, told apart by its identity.
Struct(struct, id, offset) ==
    [id |-> id, cls |-> struct.name, offset |-> offset, size |-> struct.size]

\* The number of structures a dict of Data holds.
RECURSIVE NbIn(_, _)
NbIn(m, keys) ==
    IF keys = {} THEN 0
    ELSE LET k == CHOOSE x \in keys : TRUE
         IN  Len(m[k]) + NbIn(m, keys \ {k})

NbMapped(m) == NbIn(m, DOMAIN m)

\* map that registers the structure in place of those mapped at the offset.
map_replacing(m, offset, struct, id) ==
    The({The({[err |-> struct.setup, mapped |-> dict_set(m, o, <<s>>), res |-> s]
              : s \in {Struct(struct, id, o)}})
         : o \in {Offset_of(offset)}})

\* Data.map on the dict m: the structure is registered, then set up.
map(m, offset, struct, id) ==
    The({The({[err |-> struct.setup,
               mapped |-> dict_set(m, o, dict_get(m, o, <<>>) \o <<s>>),
               res |-> s]
              : s \in {Struct(struct, id, o)}})
         : o \in {Offset_of(offset)}})

\* The loop of Data.map_array from the offset reached, nb structures to go.
RECURSIVE map_array_from(_, _, _, _, _)
map_array_from(m, offset, nb, struct, id) ==
    IF nb <= 0 THEN [err |-> NoErr, mapped |-> m]
    ELSE The({IF r.err # NoErr THEN [err |-> r.err, mapped |-> r.mapped]
              ELSE map_array_from(r.mapped, __add__(offset, OffsetArg(r.res.size)),
                                  nb - 1, struct, id + 1)
              : r \in {map(m, OffsetArg(offset), struct, id)}})

\* Data.map_array
map_array(m, offset, nb, struct, id) ==
    map_array_from(m, Offset_of(offset), nb, struct, id)

\* Data.mapped
mapped(m, offset, fltr) ==
    IF dict_keys(m, Offset_of(offset)) = {}
    THEN [err |-> "KeyError", res |-> None]
    ELSE LET Test(x) == passes(fltr, x)
             res == SelectSeq(m[The(dict_keys(m, Offset_of(offset)))], Test)
         IN  IF Len(res) = 1 THEN [err |-> NoErr, res |-> res[1]]
             ELSE [err |-> "Exception", res |-> None]

\* data.map(offset, struct)
Map(offset, struct) ==
    /\ NbMapped(_mapped) + 1 <= MaxMapped
    /\ \E r \in {map(_mapped, offset, struct, NbMapped(_mapped) + 1)} :
       /\ _mapped' = r.mapped
       /\ last' = [op |-> "map", offset |-> offset, nb |-> 1, struct |-> struct,
                   fltr |-> None, err |-> r.err, res |-> r.res]
    /\ UNCHANGED <<field, buf, mutable, ro, fields_data, get_cache, decode_cache,
                   buf_reads, seen, nb_bv>>

\* data.map_array(offset, nb, struct)
MapArray(offset, nb, struct) ==
    /\ NbMapped(_mapped) + nb <= MaxMapped
    /\ \E r \in {map_array(_mapped, offset, nb, struct, NbMapped(_mapped) + 1)} :
       /\ _mapped' = r.mapped
       /\ last' = [op |-> "map_array", offset |-> offset, nb |-> nb,
                   struct |-> struct, fltr |-> None, err |-> r.err, res |-> None]
    /\ UNCHANGED <<field, buf, mutable, ro, fields_data, get_cache, decode_cache,
                   buf_reads, seen, nb_bv>>

\* data.mapped(offset, fltr)
Mapped(offset, fltr) ==
    /\ fltr \in Filters
    /\ \E r \in {mapped(_mapped, offset, fltr)} :
       last' = [op |-> "mapped", offset |-> offset, nb |-> 0,
                struct |-> None,
                fltr |-> fltr, err |-> r.err, res |-> r.res]
    /\ UNCHANGED <<_mapped, field, buf, mutable, ro, fields_data, get_cache,
                   decode_cache, buf_reads, seen, nb_bv>>

\* Data(buf, ro): nothing is mapped.
InitData ==
    /\ field = IntField(1, FALSE, "<", {})
    /\ buf = [k \in 1..BufLen |-> 0]
    /\ mutable = TRUE
    /\ ro = Data_init(mutable, FALSE)
    /\ fields_data = [i \in Instances |-> EmptyDict]
    /\ get_cache = EmptyDict
    /\ decode_cache = EmptyDict
    /\ buf_reads = [k \in Instances \X Offsets |-> 0]
    /\ seen = EmptyDict
    /\ nb_bv = 0
    /\ _mapped = EmptyDict
    /\ last = [op |-> "new", err |-> NoErr, res |-> None]

NextData ==
    \/ \E o \in MapArgs, c \in StructClasses : Map(o, c)
    \/ \E o \in MapArgs, n \in NbArgs, c \in StructClasses : MapArray(o, n, c)
    \/ \E o \in MapArgs, f \in Filters : Mapped(o, f)

\* The structures mapped on a Data.
SpecData == InitData /\ [][NextData]_vars

\* ----------------------------------------------------------------- claims
\* The lifecycle status of the field on an instance: KO when the dict has
\* no 'status'.
status_of(i) ==
    IF "status" \in DOMAIN fields_data[i] THEN fields_data[i]["status"] ELSE KO

\* Whether a BoundValue is registered for the instance.
registered(i) == "boundvalue" \in DOMAIN fields_data[i]

\* C1: over any sequence of calls the lifecycle status of a (field,
\* instance) never moves to a lower state, and an initialize call that finds
\* the field Ready leaves it Ready.
C1_StatusNeverRegresses ==
    [][\A i \in Instances :
         /\ status_of(i)' >= status_of(i)
         /\ (last'.op = "initialize" /\ last'.instance = i /\ status_of(i) = OK)
              => status_of(i)' = OK]_vars

\* C1 witness: an initialize call found the field Ready and left it Ready.
C1_Witness ==
    /\ last.op = "initialize"
    /\ last.wrapper
    /\ last.status = OK
    /\ status_of(last.instance) = OK

\* C2: a read of the field in a state where its status is not Ready, the
\* state with no status entry included, fails with FieldNotReadyError.
C2_ReadBeforeReadyIsNotReadyError ==
    (last.op = "__get__" /\ status_of(last.instance) # OK)
        => last.err = "FieldNotReadyError"

C5_OneBoundValue ==
    [][\A i \in Instances :
         /\ registered(i)
              => (registered(i)' /\
                  fields_data'[i]["boundvalue"] = fields_data[i]["boundvalue"])
         /\ (last'.op = "__get__" /\ last'.instance = i /\ last'.err = NoErr)
              => last'.res.bv = fields_data'[i]["boundvalue"]]_vars

C7_BitFieldEncodeSucceeds ==
    (/\ last.op = "encode"
     /\ field.kind = "BitField"
     /\ last.instance \in DOMAIN get_cache
     /\ last.value \in 0..(2 ^ field.size - 1)
     /\ last.offset.byte + Size_rounded(Offset(0, last.offset.bit + field.size)) <= BufLen
     /\ ~ro)
        => last.err = NoErr

\* What C8 says BitMaskField.decode returns for the integer n: the table
\* entries that are non-zero subsets of n, then the bits of n they leave
\* uncovered when there are any.
C8_Expected(values, n) ==
    LET named == {x \in values : x # 0 /\ BitAnd(x, n) = x}
        left == n - BitAnd(n, OrAll(named))
    IN  List(named, IF left # 0 THEN <<left>> ELSE <<>>)

\* C8: a BitMaskField decode that reads the integer n from the buffer
\* returns the entries and the leftover C8_Expected names.
C8_BitMaskDecode ==
    [][(/\ last'.op = "decode"
        /\ last'.err = NoErr
        /\ <<last'.instance, last'.offset>> \notin DOMAIN decode_cache)
          => last'.res = C8_Expected(field.values, buf[last'.offset.byte + 1])]_vars

\* C9: on a read-only buffer (opened read-only, or whose write probe
\* failed) every encode, set and pack_into call fails with an error and
\* leaves the buffer as it was.
C9_ReadOnlyRejectsWrites ==
    [][((ro \/ ~mutable) /\ last'.op \in {"encode", "set", "pack_into"})
          => (last'.err # NoErr /\ buf' = buf)]_vars

\* C9 witness: a field that is Ready and bound, on a buffer that supports
\* writes and was opened read-only, had its encode refused by pack_into.
C9_Witness ==
    /\ ro
    /\ mutable
    /\ last.op = "encode"
    /\ last.err = "Exception"

C11_BitFieldSizeErrorRaised ==
    (/\ last.op = "initialize"
     /\ ~last.wrapper
     /\ field.kind = "BitField"
     /\ last.offset.bit + field.size > 64)
        => (last.err = "BifFieldSizeError" /\ last.res = None)

\* The smallest of 1, 2, 4 and 8 bytes that covers n bits.
C17_Width(n) == IF n <= 8 THEN 1 ELSE IF n <= 16 THEN 2 ELSE IF n <= 32 THEN 4 ELSE 8

\* Bits o..o+w-1 of the little-endian integer that starts at byte k of b,
\* computed from the bytes that hold them.
C17_Bits(b, k, o, w) ==
    (be_value(Reverse(SubSeq(b, k + 1, k + ((o + w + 7) \div 8)))) \div (2 ^ o)) % (2 ^ w)

\* C17: decode by a BitField that is Ready and bound at the offset decoded,
\* of width w at bit offset o with w + o <= 64 and the enclosing integer of
\* 1, 2, 4 or 8 bytes inside the buffer, succeeds and returns bits o..o+w-1
\* of that integer.
C17_BitFieldDecode ==
    [][(/\ last'.op = "decode"
        /\ field.kind = "BitField"
        /\ last'.instance \in DOMAIN get_cache'
        /\ get_cache'[last'.instance].offset = last'.offset
        /\ <<last'.instance, last'.offset>> \notin DOMAIN decode_cache
        /\ last'.offset.bit + field.size <= 64
        /\ last'.offset.byte + C17_Width(last'.offset.bit + field.size) <= Len(buf))
          => /\ last'.err = NoErr
             /\ last'.res = PyInt(C17_Bits(buf, last'.offset.byte,
                                           last'.offset.bit, field.size))]_vars

\* C12: every offset constructed from a (byte, bit) pair or returned by an
\* addition or a subtraction (offset with offset, offset with integer,
\* integer with offset) has its bit in 0..7 and stands for the number of
\* bits exact arithmetic gives.
C12_OffsetNormalisedAndExact ==
    last.op \in {"Offset", "add", "radd", "sub", "rsub"}
        => (last.res.bit \in 0..7 /\ Bits(last.res) = last.exact)

\* C13: subtracting from o + delta the same delta, an integer or an offset
\* with any bit component, gives an offset equal to o.
C13_AddSubRoundTrip ==
    [][(last.op = "add" /\ last'.op = "sub" /\ last'.other = last.other)
          => __eq__(last'.res, OffsetArg(last.self))]_vars

\* C13 witness: the subtraction undid an addition whose bits carried into
\* the byte, and borrowed them back.
C13_Witness ==
    /\ last.op = "sub"
    /\ last.undoes
    /\ last.other.t = "Offset"
    /\ last.other.bit > last.self.bit
    /\ last.res.bit # 0

\* C19: n - o for an integer n and an offset o is Offset(n) - o, and adding
\* o to it gives Offset(n).
C19_IntMinusOffsetBorrows ==
    last.op = "rsub"
        => /\ __eq__(last.res, OffsetArg(__sub__(Offset(last.other.byte, 0),
                                                 OffsetArg(last.self))))
           /\ __eq__(__add__(last.res, OffsetArg(last.self)),
                     OffsetArg(Offset(last.other.byte, 0)))

C18_Expected(b, k, n, v) ==
    [j \in 1..Len(b) |->
       IF j > k /\ j <= k + n
       THEN (IF j - k <= Len(v) THEN v[j - k] ELSE 0)
       ELSE b[j]]

\* C18: encode of a bytes value of any length by a ByteArrayField of size
\* n that is Ready and bound, on a buffer that takes writes and holds the n
\* bytes at the offset, succeeds and changes the buffer to C18_Expected.
C18_ByteArrayEncode ==
    [][(/\ last'.op = "encode"
        /\ field.kind = "ByteArrayField"
        /\ ~field.ref
        /\ last'.instance \in DOMAIN get_cache'
        /\ ~ro
        /\ last'.offset.byte + field.size <= Len(buf))
          => /\ last'.err = NoErr
             /\ buf' = C18_Expected(buf, last'.offset.byte, field.size,
                                    last'.value.v)]_vars

\* The structures mapped at the offset o in the dict m, in order.
C21_At(m, o) == IF o \in DOMAIN m THEN m[o] ELSE <<>>

\* Every structure of the dict m is still in m2, at its offset and rank.
C21_Kept(m, m2) ==
    \A o \in DOMAIN m :
        /\ Len(C21_At(m2, o)) >= Len(m[o])
        /\ SubSeq(C21_At(m2, o), 1, Len(m[o])) = m[o]

\* The structures of m2 that m has not.
C21_New(m, m2) ==
    {m2[o][j] : <<o, j>> \in {<<o, j>> \in (DOMAIN m2) \X (1..MaxMapped + 1) :
                               j > Len(C21_At(m, o)) /\ j <= Len(m2[o])}}

\* The structure turn k of the call maps, n structures being mapped before:
\* k - 1 sizes past the offset of the call, counted in bits.
C21_Turn(call, n, k) ==
    [id |-> n + k, cls |-> call.struct.name,
     offset |-> Offset(0, Bits(call.offset) + (k - 1) * Bits(call.struct.size)),
     size |-> call.struct.size]

\* The structures at the offset of the call that pass its filter.
C21_Passing(m, call) ==
    {x \in {C21_At(m, Offset_of(call.offset))[j]
            : j \in 1..Len(C21_At(m, Offset_of(call.offset)))} : passes(call.fltr, x)}

\* C21: a call of map_array keeps every structure mapped before it at its
\* offset and rank, and one that returns has mapped exactly nb structures
\* more, the k-th at the offset of the call plus k - 1 sizes, each in the
\* list of its own offset and in the order of the turns; a call of mapped
\* changes nothing, returns a structure when exactly one structure mapped at
\* the offset passes the filter, that one, and raises otherwise.
C21_MapArrayAndMapped ==
    [][/\ last'.op = "map_array" =>
            /\ C21_Kept(_mapped, _mapped')
            /\ last'.err = NoErr =>
                 /\ NbMapped(_mapped') = NbMapped(_mapped) + last'.nb
                 /\ C21_New(_mapped, _mapped') =
                      {C21_Turn(last', NbMapped(_mapped), k) : k \in 1..last'.nb}
                 /\ \A o \in DOMAIN _mapped' : \A j \in 1..Len(_mapped'[o]) :
                      /\ _mapped'[o][j].offset = o
                      /\ j > 1 => _mapped'[o][j - 1].id < _mapped'[o][j].id
       /\ last'.op = "mapped" =>
            /\ _mapped' = _mapped
            /\ IF Cardinality(C21_Passing(_mapped, last')) = 1
               THEN last'.err = NoErr /\ last'.res \in C21_Passing(_mapped, last')
               ELSE last'.err # NoErr]_vars

\* A call of map_array that returned after two turns, the second past a size
\* of bits, on a Data where a structure was mapped before at the offset of a
\* turn.
C21_Witness ==
    /\ last.op = "map_array"
    /\ last.err = NoErr
    /\ last.nb = 2
    /\ last.struct.name = "Nibble"
    /\ NbMapped(_mapped) = 3
    /\ \E o \in DOMAIN _mapped :
         /\ Len(_mapped[o]) = 2
         /\ _mapped[o][1].id = 1
         /\ _mapped[o][2].id = 3

====
